---- MODULE Spec2Model ----
(***************************************************************************)
(* pixelblaze-rs: the sensor-frame client (src/src/sensor.rs) and the      *)
(* audio reader built on it (examples/pixelblaze-audio-reader/src/main.rs).*)
(*                                                                         *)
(* Two specifications:                                                     *)
(*   SpecClient  the library type SensorClient: new, add_target,           *)
(*               remove_target, send_frame, under any caller.              *)
(*   Spec        the audio reader: main's set-up followed by the capture   *)
(*               callback to_spectrum_fn, invoked once per delivered       *)
(*               buffer.                                                   *)
(*                                                                         *)
(* Number representation.  TLC integers are 32-bit signed, so              *)
(*   - a u32 is a pair <<lo, hi>> of 16-bit halves,                        *)
(*   - the u128 millisecond clock is a triple <<l0, l1, l2>> of 16-bit     *)
(*     limbs (48 bits: the present epoch time needs 41),                   *)
(*   - an f32 is an exact rational num/den (the values used are exactly    *)
(*     representable, so no rounding is lost).                             *)
(***************************************************************************)
EXTENDS Integers, Sequences, FiniteSets, TLC

\* ---------------------------------------------------------------- bounds
\* Number of distinct socket addresses the callers choose from.
NumAddrs == 2
\* Number of buffers the capture driver delivers in one run.
MaxCallbacks == 2
\* Denominator of the fixed-point magnitudes the transform returns.
MagDen == 4

Addrs == 1..NumAddrs

\* ------------------------------------------------------- program constants
U16_MAX == 65535
FRAME_TYPE == 50
SB10 == 1
NUM_BUCKETS == 32
CEILING_HZ == 10000

SENSOR_DATA_BYTES == 32 * 2 + 2 + 2 + 2 + 3 * 2 + 2 + 5 * 2
DISC_HEADER_BYTES == 4 + 4 + 4 + 1 + 3
FRAME_BYTES == DISC_HEADER_BYTES + SENSOR_DATA_BYTES

\* ------------------------------------------------------------ byte helpers
\* Mutant of U16LE: the bytes in big-endian order (to_be_bytes)
U16BE(v) == <<v \div 256, v % 256>>

\* u16::to_le_bytes
U16LE(v) == <<v % 256, v \div 256>>

\* i16::to_le_bytes: two's complement
I16LE(v) == U16LE(IF v < 0 THEN v + 65536 ELSE v)

\* u32::to_le_bytes / i32::to_le_bytes on a <<lo, hi>> pair of 16-bit halves
U32LE(w) == U16LE(w[1]) \o U16LE(w[2])

U32_MAX == <<U16_MAX, U16_MAX>>

\* SystemTime::now(): either before the Unix epoch, or a u128 count of
\* milliseconds since it, as three 16-bit limbs.
Clocks ==
    { [before |-> TRUE,  ms |-> <<0, 0, 0>>],
      [before |-> FALSE, ms |-> <<1000, 7, 0>>],
      [before |-> FALSE, ms |-> <<U16_MAX, U16_MAX, 0>>],
      [before |-> FALSE, ms |-> <<4660, 22136, 411>>] }

\* duration_since(UNIX_EPOCH).map(|d| d.as_millis().try_into()
\*     .unwrap_or(u32::MAX)).unwrap_or(0)
ts_millis(clock) ==
    IF clock.before THEN <<0, 0>>
    ELSE IF clock.ms[3] = 0 THEN <<clock.ms[1], clock.ms[2]>>
    ELSE U32_MAX

\* ------------------------------------------------------------------ cursor
\* The cursor only moves forward (write_all, set_position(position + n)), so
\* the array is kept as `done`, the bytes before the position (written, or
\* skipped and still the initial 0), followed by initial zeros.
Zeros(n) == [i \in 1..n |-> 0]

\* Cursor::new([0; FRAME_BYTES])
NewCursor == [done |-> <<>>, pos |-> 0, err |-> FALSE]

\* Cursor<[u8; N]>::write_all: copies the bytes at the position and advances;
\* fails (WriteZero) when they do not all fit, and `?` then returns.
write_all(c, bytes) ==
    IF c.err THEN c
    ELSE IF c.pos + Len(bytes) > FRAME_BYTES THEN [c EXCEPT !.err = TRUE]
    ELSE [done |-> c.done \o bytes, pos |-> c.pos + Len(bytes), err |-> FALSE]

\* cursor.set_position(cursor.position() + n)
skip(c, n) ==
    IF c.err THEN c
    ELSE [done |-> IF c.pos + n <= FRAME_BYTES THEN c.done \o Zeros(n)
                   ELSE c.done \o Zeros(FRAME_BYTES - c.pos),
          pos |-> c.pos + n, err |-> FALSE]

\* cursor.into_inner(): the whole array
into_inner(c) == c.done \o Zeros(FRAME_BYTES - Len(c.done))

RECURSIVE write_each(_, _, _, _)
\* for x in xs { cursor.write_all(&x.to_le_bytes())? }; signed selects i16
write_each(c, xs, i, signed) ==
    IF i > Len(xs) THEN c
    ELSE write_each(write_all(c, IF signed THEN I16LE(xs[i]) ELSE U16LE(xs[i])),
                    xs, i + 1, signed)

PaddingSkip == 3

\* The header of send_frame
WriteHeader(c, frame_type, sender_id, ts) ==
    skip(write_all(write_all(write_all(write_all(c,
        frame_type), sender_id), U32LE(ts)), <<SB10>>), PaddingSkip)

\* The audio part of send_frame
WriteAudio(c, audio) ==
    write_all(write_all(write_all(write_each(c, audio.freq_buckets, 1, FALSE),
        U16LE(audio.energy_avg)), U16LE(audio.max_freq_magnitude)),
        U16LE(audio.max_freq))

\* The other sensor data of send_frame
WriteSensors(c, accel, light, analog) ==
    write_each(write_all(write_each(c, accel, 1, TRUE), U16LE(light)),
               analog, 1, FALSE)

\* The cursor as send_frame leaves it before the assertion
BuildFrame(frame_type, sender_id, ts, audio, accel, light, analog) ==
    WriteSensors(WriteAudio(WriteHeader(NewCursor, frame_type, sender_id, ts),
                            audio), accel, light, analog)

\* ---------------------------------------------------------------- transmit
Outcomes == {"ok", "connect_err", "send_err"}

RECURSIVE SendLoop(_, _, _, _)
\* for target in &self.targets { socket.connect(target)?; socket.send(&frame)?; }
\* order: the HashSet's iteration order; outcome[a]: what the network does
\* for address a.  `?` returns at the first failure.
SendLoop(order, outcome, i, log) ==
    IF i > Len(order) THEN [attempts |-> log, result |-> "Ok"]
    ELSE LET a == order[i] IN
         IF outcome[a] = "ok"
         THEN SendLoop(order, outcome, i + 1,
                           Append(log, [addr |-> a, connect |-> TRUE, sent |-> TRUE]))
         ELSE [attempts |-> Append(log, [addr |-> a,
                                         connect |-> outcome[a] # "connect_err",
                                         sent |-> FALSE]),
               result |-> "Err"]

\* SensorClient::send_frame, from the cursor c it has built
send_built(c, ts, bindOk, order, outcome) ==
    IF c.err
    THEN [frame |-> into_inner(c), pos |-> c.pos, ts |-> ts,
          attempts |-> <<>>, result |-> "Err"]
    ELSE IF c.pos # FRAME_BYTES
    THEN [frame |-> into_inner(c), pos |-> c.pos, ts |-> ts,
          attempts |-> <<>>, result |-> "panic"]
    ELSE IF ~bindOk
    THEN [frame |-> into_inner(c), pos |-> c.pos, ts |-> ts,
          attempts |-> <<>>, result |-> "Err"]
    ELSE LET t == SendLoop(order, outcome, 1, <<>>)
         IN [frame |-> into_inner(c), pos |-> c.pos, ts |-> ts,
             attempts |-> t.attempts, result |-> t.result]

\* SensorClient::send_frame
send_frame(cl, audio, accel, light, analog, clock, bindOk, order, outcome) ==
    send_built(BuildFrame(cl.frame_type, cl.sender_id, ts_millis(clock),
                          audio, accel, light, analog),
               ts_millis(clock), bindOk, order, outcome)

\* The iteration orders of a HashSet holding the addresses S
Orders(S) ==
    { o \in [1..Cardinality(S) -> S] : \A i, j \in 1..Cardinality(S) : i # j => o[i] # o[j] }

\* ------------------------------------------------------------------- state
\* lastOp and lastSend describe the most recent call on the client: each is
\* reset by a call of the other kind.
VARIABLES
    client,          \* SensorClient: sender_id, targets, frame_type
    lastOp,          \* the most recent call, when add_target / remove_target
    lastSend,        \* the most recent call, when send_frame: what it did
    sample_rate_hz,  \* cli.sample_rate_hz
    frame_samples,   \* cli.frame_samples
    frame_count,     \* the closure's frame counter
    padding_buf,     \* the closure's padding buffer
    panicked,        \* the capture callback has panicked: the stream is dead
    delivered,       \* the buffers the capture driver has delivered, in order
    analysed,        \* the frames handed to the window and the transform
    trace,           \* the stages executed: buffer index, stage, thread
    last             \* the intermediate values of the most recent callback

clientVars == <<client, lastOp, lastSend>>
audioVars == <<sample_rate_hz, frame_samples, frame_count, padding_buf,
               panicked, delivered, analysed, trace, last>>
vars == <<client, lastOp, lastSend, sample_rate_hz, frame_samples, frame_count,
          padding_buf, panicked, delivered, analysed, trace, last>>

\* ------------------------------------------------------------ SensorClient
SenderIds == { <<89, 0>>, <<513, 32768>> }

\* SensorClient::new
new(sender_id) ==
    [sender_id |-> U32LE(sender_id),
     targets |-> {},
     frame_type |-> U32LE(<<FRAME_TYPE, 0>>)]

NoOp == [op |-> "none", addr |-> 0, before |-> {}]
NoSend == [called |-> FALSE]

\* Mutant of insert: the set is replaced by the new address
insert_replacing(targets, addr) == {addr}

\* HashSet::insert
insert(targets, addr) == targets \cup {addr}

\* HashSet::remove
remove(targets, addr) == targets \ {addr}

\* SensorClient::add_target
add_target(addr) ==
    /\ client' = [client EXCEPT !.targets = insert(client.targets, addr)]
    /\ lastOp' = [op |-> "add", addr |-> addr, before |-> client.targets]
    /\ lastSend' = NoSend

\* SensorClient::remove_target
remove_target(addr) ==
    /\ client' = [client EXCEPT !.targets = remove(client.targets, addr)]
    /\ lastOp' = [op |-> "remove", addr |-> addr, before |-> client.targets]
    /\ lastSend' = NoSend

\* The sensor readings the callers pass: an audio record, an accelerometer
\* triple, a light value and an analog quintuple.
Readings ==
    { [audio |-> [freq_buckets |-> [k \in 1..NUM_BUCKETS |-> 0],
                  energy_avg |-> 0, max_freq_magnitude |-> 0, max_freq |-> 0],
       accel |-> <<0, 0, 0>>, light |-> 0, analog |-> <<0, 0, 0, 0, 0>>],
      [audio |-> [freq_buckets |-> [k \in 1..NUM_BUCKETS |-> (k * 2057) % 65536],
                  energy_avg |-> U16_MAX, max_freq_magnitude |-> 256, max_freq |-> 1],
       accel |-> <<-1, -32768, 32767>>, light |-> U16_MAX,
       analog |-> <<1, 256, U16_MAX, 0, 4660>>],
      [audio |-> [freq_buckets |-> [k \in 1..NUM_BUCKETS |-> U16_MAX - k],
                  energy_avg |-> 258, max_freq_magnitude |-> U16_MAX, max_freq |-> 440],
       accel |-> <<255, -256, 1>>, light |-> 772,
       analog |-> <<U16_MAX, 32768, 255, 1286, 2>>] }

\* What one call of send_frame did, with the inputs it was given
SendRecord(r, clock, bindOk, order, outcome) ==
    LET s == send_frame(client, r.audio, r.accel, r.light, r.analog,
                        clock, bindOk, order, outcome)
    IN [called |-> TRUE, reading |-> r, clock |-> clock, targets |-> client.targets,
        bindOk |-> bindOk, outcome |-> outcome,
        frame |-> s.frame, pos |-> s.pos, ts |-> s.ts,
        attempts |-> s.attempts, result |-> s.result]

\* The network every address of S answers
AllOk(S) == [a \in S |-> "ok"]

\* A caller's send_frame(&audio, &accel, light, &analog): any reading at any
\* clock value over a network that answers, or the first reading under any
\* network (bind failing, or each address failing or not), in any iteration
\* order of the set.
SendFrame ==
    \E order \in Orders(client.targets) :
        /\ \/ \E r \in Readings, clock \in Clocks :
                lastSend' = SendRecord(r, clock, TRUE, order, AllOk(client.targets))
           \/ \E r \in Readings, outcome \in [client.targets -> Outcomes] :
                /\ r.light = 0
                /\ lastSend' = SendRecord(r, [before |-> FALSE, ms |-> <<1000, 7, 0>>],
                                          TRUE, order, outcome)
           \/ \E r \in Readings :
                /\ r.light = 0
                /\ lastSend' = SendRecord(r, [before |-> FALSE, ms |-> <<1000, 7, 0>>],
                                          FALSE, order, AllOk(client.targets))
        /\ lastOp' = NoOp
        /\ UNCHANGED client

\* ------------------------------------------------------------ audio reader
\* usize::count_ones() == 1
IsPow2(n) == \E e \in 0..30 : n = 2 ^ e

RECURSIVE Pow2From(_, _)
Pow2From(p, n) == IF p >= n THEN p ELSE Pow2From(2 * p, n)

\* usize::next_power_of_two: the smallest power of two >= n (1 for 0)
next_power_of_two(n) == Pow2From(1, n)

\* Mutant of pad_into: the padding buffer is not cleared first
pad_into_uncleared(buf, audio) ==
    buf \o audio \o Zeros(next_power_of_two(Len(audio)) - Len(audio))

\* padding_buf after clear(); extend_from_slice(audio); append(&mut padding)
pad_into(buf, audio) ==
    audio \o Zeros(next_power_of_two(Len(audio)) - Len(audio))

\* The slice the callback analyses: the delivered one when its length is a
\* power of two, else the padding buffer
padded(buf, audio) ==
    IF IsPow2(Len(audio)) THEN audio ELSE pad_into(buf, audio)

\* Mutant of as_u16: the cast wraps modulo 2^16
as_u16_wrapping(v) == v % 65536

\* f32 as u16: Rust's float-to-integer cast saturates
as_u16(v) == IF v < 0 THEN 0 ELSE IF v > U16_MAX THEN U16_MAX ELSE v

\* Shortable::to_scaled_u16 of the f32 num/den: (self * u16::MAX as f32) as u16.
\* floor(num * 65535 / den), computed without leaving 32 bits.
to_scaled_u16(num, den) ==
    as_u16((num \div den) * U16_MAX + ((num % den) * U16_MAX) \div den)

\* f32::clamp(0.0, 1.0) of num/den, as a numerator over den
clamp01(num, den) == IF num < 0 THEN 0 ELSE IF num > den THEN den ELSE num

\* The magnitudes the transform may return (the FFT library is outside the
\* repository): non-negative, in units of 1/MagDen, one family per pattern.
Patterns == {"silence", "full", "ramp", "spike"}

Mag(i, pat) ==
    CASE pat = "silence" -> 0
      [] pat = "full" -> MagDen
      [] pat = "ramp" -> i % 3
      [] OTHER -> IF i = 3 THEN 3 * MagDen ELSE 1

\* samples_fft_to_spectrum(.., FrequencyLimit::All, ..): an error for fewer
\* than two samples or a length that is no power of two
transform_ok(n) == n >= 2 /\ IsPow2(n)

\* The spectrum of n samples: bins 0..n/2, bin i at i * sample_rate / n Hz
spectrum(n, rate, pat) ==
    [j \in 1..(n \div 2 + 1) |->
        [fnum |-> (j - 1) * rate, fden |-> n, mag |-> Mag(j - 1, pat)]]

RECURSIVE SumRange(_, _, _)
SumRange(xs, lo, hi) ==
    IF lo > hi THEN 0
    ELSE IF lo = hi THEN xs[lo]
    ELSE SumRange(xs, lo, (lo + hi) \div 2) + SumRange(xs, (lo + hi) \div 2 + 1, hi)

\* Iterator::sum
sum(xs) == SumRange(xs, 1, Len(xs))

\* FrequencySpectrum::average
average(sp) ==
    [num |-> sum([j \in 1..Len(sp) |-> sp[j].mag]), den |-> Len(sp) * MagDen]

\* FrequencySpectrum::max: the bin of greatest magnitude
max(sp) ==
    LET mags == {sp[k].mag : k \in 1..Len(sp)}
        top == CHOOSE v \in mags : \A w \in mags : w <= v
        j == CHOOSE j \in 1..Len(sp) : sp[j].mag = top
    IN [freq |-> [num |-> sp[j].fnum, den |-> sp[j].fden],
        mag |-> [num |-> sp[j].mag, den |-> MagDen]]

\* freq.val() < 10_000f32
below_ceiling(bin) == bin.fnum < CEILING_HZ * bin.fden

\* .take_while(below the ceiling).count(): the length of the longest prefix
\* of bins that are all below the ceiling
take_while_len(sp) ==
    CHOOSE n \in 0..Len(sp) :
        /\ n = Len(sp) \/ ~below_ceiling(sp[n + 1])
        /\ \A j \in 1..n : below_ceiling(sp[j])

\* trimmed: the magnitudes of the leading bins below 10 kHz
trim(sp) == [j \in 1..take_while_len(sp) |-> sp[j].mag]

\* slice::chunks(size) for size > 0: runs of size elements, the last shorter
chunks(xs, size) ==
    [k \in 1..((Len(xs) + size - 1) \div size) |->
        SubSeq(xs, (k - 1) * size + 1,
               IF k * size < Len(xs) THEN k * size ELSE Len(xs))]

\* Iterator::take(n)
take(xs, n) == SubSeq(xs, 1, IF Len(xs) < n THEN Len(xs) ELSE n)

\* Mutant of bucketize: the chunk size is rounded up, so the remainder bins
\* are spread over the buckets instead of dropped
bucketize_rounding_up(trimmed) ==
    LET size == (Len(trimmed) + NUM_BUCKETS - 1) \div NUM_BUCKETS IN
    IF size = 0 THEN [panic |-> TRUE, bucketed |-> <<>>]
    ELSE LET cs == take(chunks(trimmed, size), NUM_BUCKETS)
         IN [panic |-> FALSE,
             bucketed |-> [k \in 1..Len(cs) |->
                 to_scaled_u16(clamp01(sum(cs[k]), MagDen), MagDen)]]

\* trimmed.chunks(trimmed.len() / 32).take(32).map(sum).map(clamp, scale);
\* slice::chunks panics when the size is 0
bucketize(trimmed) ==
    LET size == Len(trimmed) \div NUM_BUCKETS IN
    IF size = 0 THEN [panic |-> TRUE, bucketed |-> <<>>]
    ELSE LET cs == take(chunks(trimmed, size), NUM_BUCKETS)
         IN [panic |-> FALSE,
             bucketed |-> [k \in 1..Len(cs) |->
                 to_scaled_u16(clamp01(sum(cs[k]), MagDen), MagDen)]]

\* Mutant of runs_on: the send is handed to a worker thread
runs_on_worker(stage) == IF stage = "send" THEN "worker" ELSE "capture"

\* The thread a stage of the closure runs on: the closure is the data
\* callback handed to build_input_stream, so the capture thread runs all of it
runs_on(stage) == "capture"

Stage(k, stage) == [buf |-> k, stage |-> stage, thread |-> runs_on(stage)]

\* The samples of the stream are numbered 1, 2, ...; a padding sample is 0
Total == sum([k \in 1..Len(delivered) |-> Len(delivered[k])])

ChunkLens == {0, 2, 48, 64, 128, 256}
SampleRates == {8000, 48000}
FrameSizes == {64, 128}

Now == [before |-> FALSE, ms |-> <<4660, 22136, 411>>]

\* to_spectrum_fn panicking at the unwrap of the transform's result
CallbackPanicUnwrap(chunk, audio) ==
    /\ ~transform_ok(Len(audio))
    /\ panicked' = TRUE
    /\ trace' = trace \o <<Stage(Len(delivered) + 1, "pad"),
                           Stage(Len(delivered) + 1, "transform")>>
    /\ last' = [called |-> TRUE, len |-> Len(chunk), n |-> 0, status |-> "panic_unwrap"]
    /\ UNCHANGED <<frame_count, client, lastOp, lastSend>>

\* to_spectrum_fn panicking in slice::chunks(0)
CallbackPanicChunks(chunk, trimmed) ==
    /\ panicked' = TRUE
    /\ trace' = trace \o <<Stage(Len(delivered) + 1, "pad"),
                           Stage(Len(delivered) + 1, "transform"),
                           Stage(Len(delivered) + 1, "bucketize")>>
    /\ last' = [called |-> TRUE, len |-> Len(chunk), n |-> Len(trimmed),
                status |-> "panic_chunks"]
    /\ UNCHANGED <<frame_count, client, lastOp, lastSend>>

\* AudioData { freq_buckets, energy_avg, max_freq_magnitude, max_freq }
audio_data(bucketed, avg, mx) ==
    [freq_buckets |-> bucketed,
     energy_avg |-> to_scaled_u16(avg.num, avg.den),
     max_freq_magnitude |-> to_scaled_u16(mx.mag.num, mx.mag.den),
     max_freq |-> to_scaled_u16(mx.freq.num, mx.freq.den)]

\* to_spectrum_fn running to its end: the frame is analysed, bucketed and
\* sent; a failed send is logged and the callback returns.  The progress line
\* printed every 50th frame and the last_frame instant it reports change
\* nothing else and are left out.
CallbackSent(chunk, trimmed, avg, mx, data, bindOk, order, outcome) ==
    /\ frame_count' = frame_count + 1
    /\ lastSend' = SendRecord([audio |-> data, accel |-> <<0, 0, 0>>, light |-> 0,
                               analog |-> <<0, 0, 0, 0, 0>>],
                              Now, bindOk, order, outcome)
    /\ trace' = trace \o <<Stage(Len(delivered) + 1, "pad"),
                           Stage(Len(delivered) + 1, "transform"),
                           Stage(Len(delivered) + 1, "bucketize"),
                           Stage(Len(delivered) + 1, "send")>>
    /\ last' = [called |-> TRUE, len |-> Len(chunk), n |-> Len(trimmed),
                status |-> "ok", trimmed |-> trimmed, energy_avg |-> avg,
                max_freq_magnitude |-> mx.mag, max_freq |-> mx.freq, audio |-> data]
    /\ UNCHANGED <<panicked, client, lastOp>>

\* The rest of to_spectrum_fn once the transform has succeeded
CallbackAnalysed(chunk, audio, pat) ==
    \E sp \in {spectrum(Len(audio), sample_rate_hz, pat)} :
    \E trimmed \in {trim(sp)} :
    \E b \in {bucketize(trimmed)} :
        \/ b.panic /\ CallbackPanicChunks(chunk, trimmed)
        \/ /\ ~b.panic
           /\ \E avg \in {average(sp)}, mx \in {max(sp)} :
              \E data \in {audio_data(b.bucketed, avg, mx)} :
              \E order \in Orders(client.targets) :
                \/ \E outcome \in [client.targets -> Outcomes] :
                     CallbackSent(chunk, trimmed, avg, mx, data, TRUE, order, outcome)
                \/ CallbackSent(chunk, trimmed, avg, mx, data, FALSE, order,
                                AllOk(client.targets))

\* The capture driver delivering one buffer of len samples: to_spectrum_fn
Callback(len, pat) ==
    /\ ~panicked
    /\ Len(delivered) < MaxCallbacks
    /\ \E chunk \in {[i \in 1..len |-> Total + i]} :
       \E audio \in {padded(padding_buf, chunk)} :
         /\ delivered' = Append(delivered, chunk)
         /\ padding_buf' = IF IsPow2(len) THEN padding_buf ELSE audio
         /\ analysed' = Append(analysed, audio)
         /\ \/ CallbackPanicUnwrap(chunk, audio)
            \/ transform_ok(Len(audio)) /\ CallbackAnalysed(chunk, audio, pat)
    /\ UNCHANGED <<sample_rate_hz, frame_samples>>

AudioIdle ==
    /\ sample_rate_hz = 0
    /\ frame_samples = 0
    /\ frame_count = 0
    /\ padding_buf = <<>>
    /\ panicked = FALSE
    /\ delivered = <<>>
    /\ analysed = <<>>
    /\ trace = <<>>
    /\ last = [called |-> FALSE]

InitClient ==
    /\ \E id \in SenderIds : client = new(id)
    /\ lastOp = NoOp
    /\ lastSend = NoSend
    /\ AudioIdle

NextClient ==
    \/ \E a \in Addrs : add_target(a) /\ UNCHANGED audioVars
    \/ \E a \in Addrs : remove_target(a) /\ UNCHANGED audioVars
    \/ SendFrame /\ UNCHANGED audioVars

SpecClient == InitClient /\ [][NextClient]_vars

\* main up to stream.play(): SensorClient::new(89) with the command line's
\* target added, the closure's captured variables, the stream started
Init ==
    /\ client = [new(<<89, 0>>) EXCEPT !.targets = {1}]
    /\ lastOp = NoOp
    /\ lastSend = NoSend
    /\ sample_rate_hz \in SampleRates
    /\ frame_samples \in FrameSizes
    /\ frame_count = 0
    /\ padding_buf = <<>>
    /\ panicked = FALSE
    /\ delivered = <<>>
    /\ analysed = <<>>
    /\ trace = <<>>
    /\ last = [called |-> FALSE]

Next == \E len \in ChunkLens, pat \in Patterns : Callback(len, pat)

Spec == Init /\ [][Next]_vars

\* ================================================================== claims
\* Decoding a frame at a byte offset, little-endian
DecU16(f, off) == f[off + 1] + 256 * f[off + 2]
DecI16(f, off) == IF DecU16(f, off) >= 32768 THEN DecU16(f, off) - 65536 ELSE DecU16(f, off)
DecU32(f, off) == <<DecU16(f, off), DecU16(f, off + 2)>>

\* The attempts of the last send that concern address a
Attempted(a) == \E i \in DOMAIN lastSend.attempts : lastSend.attempts[i].addr = a
Received(a) ==
    \E i \in DOMAIN lastSend.attempts :
        lastSend.attempts[i].addr = a /\ lastSend.attempts[i].sent
\* The number of times socket.send was called for address a
Writes(a) ==
    Cardinality({i \in DOMAIN lastSend.attempts :
                    lastSend.attempts[i].addr = a /\ lastSend.attempts[i].connect})

\* C1 (as claimed): in a send over at least two destinations every destination
\* is attempted and every reachable one receives the frame, whatever fails
\* for the others and whatever the iteration order.
C1_EveryDestinationAttempted ==
    (lastSend.called /\ lastSend.bindOk /\ Cardinality(lastSend.targets) >= 2) =>
        \A a \in lastSend.targets :
            /\ Attempted(a)
            /\ lastSend.outcome[a] = "ok" => Received(a)

\* C2: send_frame builds a frame of exactly 104 bytes, the cursor ending at
\* 104, whose fields decode, little-endian and at the documented offsets, to
\* the packet type tag, the sender id, the timestamp, the board tag, zero
\* padding, the 32 buckets, the three audio summaries, the 3 accelerometer
\* axes, the light value and the 5 analog values that were passed in.
C2_FrameLayout ==
    lastSend.called =>
        LET f == lastSend.frame
            r == lastSend.reading
        IN  /\ lastSend.result # "panic"
            /\ lastSend.pos = 104
            /\ Len(f) = 104
            /\ \A i \in 1..104 : f[i] \in 0..255
            /\ DecU32(f, 0) = <<50, 0>>
            /\ \E id \in SenderIds \cup {<<89, 0>>} :
                   client.sender_id = U32LE(id) /\ DecU32(f, 4) = id
            /\ DecU32(f, 8) = lastSend.ts
            /\ f[13] = 1
            /\ f[14] = 0 /\ f[15] = 0 /\ f[16] = 0
            /\ \A k \in 1..32 : DecU16(f, 16 + 2 * (k - 1)) = r.audio.freq_buckets[k]
            /\ Len(r.audio.freq_buckets) = 32
            /\ DecU16(f, 80) = r.audio.energy_avg
            /\ DecU16(f, 82) = r.audio.max_freq_magnitude
            /\ DecU16(f, 84) = r.audio.max_freq
            /\ \A k \in 1..3 : DecI16(f, 86 + 2 * (k - 1)) = r.accel[k]
            /\ DecU16(f, 92) = r.light
            /\ \A k \in 1..5 : DecU16(f, 94 + 2 * (k - 1)) = r.analog[k]

\* C2 witness: a frame of negative and extreme sensor values was sent
C2_Witness ==
    /\ lastSend.called
    /\ lastSend.result = "Ok"
    /\ lastSend.targets # {}
    /\ lastSend.reading.accel = <<-1, -32768, 32767>>
    /\ lastSend.reading.audio.freq_buckets[32] # 0
    /\ lastSend.ts # <<0, 0>>

\* C6 (as claimed): add_target of a present address and remove_target of an
\* absent one leave the set unchanged, and every send writes to each address
\* of the set exactly once.
C6_ExactlyOneWriteEach ==
    /\ (lastOp.op = "add" /\ lastOp.addr \in lastOp.before) => client.targets = lastOp.before
    /\ (lastOp.op = "remove" /\ lastOp.addr \notin lastOp.before) => client.targets = lastOp.before
    /\ lastSend.called => \A a \in lastSend.targets : Writes(a) = 1

\* C6 (amended): add_target of a present address and remove_target of an
\* absent one leave the set unchanged, add_target adds exactly its address and
\* remove_target removes exactly its address; every send calls send at most
\* once for each address of the set and never for another address, and
\* exactly once for each address of the set when it returns Ok.
C6_AtMostOneWriteEach ==
    /\ (lastOp.op = "add" /\ lastOp.addr \in lastOp.before) => client.targets = lastOp.before
    /\ (lastOp.op = "remove" /\ lastOp.addr \notin lastOp.before) => client.targets = lastOp.before
    /\ lastOp.op = "add" => client.targets = lastOp.before \cup {lastOp.addr}
    /\ lastOp.op = "remove" => client.targets = lastOp.before \ {lastOp.addr}
    /\ lastSend.called =>
        /\ \A a \in Addrs : Writes(a) <= (IF a \in lastSend.targets THEN 1 ELSE 0)
        /\ Len(lastSend.attempts) <= Cardinality(lastSend.targets)
        /\ lastSend.result = "Ok" => \A a \in lastSend.targets : Writes(a) = 1

\* C6 witness: an address already in a set of two was added again
C6_Witness ==
    /\ lastOp.op = "add"
    /\ lastOp.addr \in lastOp.before
    /\ Cardinality(lastOp.before) >= 2

\* C10 (as claimed): for every clock value t at or after the epoch the
\* timestamp field at bytes 8..12 is t mod 2^32, little-endian.
C10_TimestampTruncated ==
    (lastSend.called /\ ~lastSend.clock.before) =>
        DecU32(lastSend.frame, 8) = <<lastSend.clock.ms[1], lastSend.clock.ms[2]>>

RECURSIVE Concat(_, _)
\* The concatenation of the sequences xs[i..]
Concat(xs, i) == IF i > Len(xs) THEN <<>> ELSE xs[i] \o Concat(xs, i + 1)

IsReal(x) == x # 0

Heavy == {"transform", "bucketize", "send"}

C5_StreamSurvivesEveryFrame == last.called => ~panicked

\* The sum of the k-th run of c trimmed bins
RunSum(k, c) == SumRange(last.trimmed, (k - 1) * c + 1, k * c)

\* x/den clamped to [0, 1] and scaled by 65535, rounding down
ClampScale(num, den) ==
    IF num <= 0 THEN 0 ELSE IF num >= den THEN 65535 ELSE (num * 65535) \div den

\* C7: each bucket sum, the average magnitude, the dominant magnitude and the
\* dominant frequency come out as the value clamped to [0, 1] and scaled by
\* 65535: within 0..65535, and 65535 for every input above 1.0.
C7_ScaledOutputsClamped ==
    (last.called /\ last.status = "ok") =>
        LET a == last.audio
            c == last.n \div 32
        IN  /\ \A k \in 1..Len(a.freq_buckets) :
                 /\ a.freq_buckets[k] \in 0..65535
                 /\ a.freq_buckets[k] = ClampScale(RunSum(k, c), MagDen)
                 /\ RunSum(k, c) > MagDen => a.freq_buckets[k] = 65535
            /\ a.energy_avg \in 0..65535
            /\ a.energy_avg = ClampScale(last.energy_avg.num, last.energy_avg.den)
            /\ a.max_freq_magnitude \in 0..65535
            /\ a.max_freq_magnitude =
                 ClampScale(last.max_freq_magnitude.num, last.max_freq_magnitude.den)
            /\ a.max_freq \in 0..65535
            /\ a.max_freq = ClampScale(last.max_freq.num, last.max_freq.den)
            /\ last.max_freq.num > last.max_freq.den => a.max_freq = 65535

\* C7 witness: a dominant frequency above 1 Hz and a dominant magnitude and a
\* bucket sum above 1.0 were scaled
C7_Witness ==
    /\ last.called
    /\ last.status = "ok"
    /\ last.max_freq.num > 100 * last.max_freq.den
    /\ last.audio.max_freq = 65535
    /\ last.max_freq_magnitude.num > last.max_freq_magnitude.den
    /\ \E k \in 1..32 : RunSum(k, last.n \div 32) > MagDen

\* C8: for n >= 32 bins below the ceiling the bucketizer returns exactly 32
\* values, the k-th the clamped, scaled sum of the k-th run of floor(n/32)
\* bins; the n - 32 * floor(n/32) trailing bins are in no bucket.
C8_ThirtyTwoBuckets ==
    (last.called /\ last.status # "panic_unwrap" /\ last.n >= 32) =>
        /\ last.status = "ok"
        /\ Len(last.trimmed) = last.n
        /\ Len(last.audio.freq_buckets) = 32
        /\ \A k \in 1..32 :
             last.audio.freq_buckets[k] = ClampScale(RunSum(k, last.n \div 32), MagDen)

\* C8 witness: runs of at least two bins with a trailing bin dropped
C8_Witness ==
    /\ last.called
    /\ last.status = "ok"
    /\ last.n \div 32 >= 2
    /\ last.n > 32 * (last.n \div 32)
    /\ last.trimmed[last.n] # 0
    /\ \E k \in 1..32 : last.audio.freq_buckets[k] \notin {0, 65535}

\* C9 (as claimed): with fewer than 32 bins below the ceiling the bucketizer
\* completes, and every chunk without bins yields 0.
C9_ShortSpectrumCompletes ==
    (last.called /\ last.status # "panic_unwrap" /\ last.n < 32) =>
        /\ last.status = "ok"
        /\ \A k \in (last.n + 1)..Len(last.audio.freq_buckets) :
             last.audio.freq_buckets[k] = 0

====
